---- MODULE Spec2Model ----
(***************************************************************************)
(* rust-filestore: the wire codec (src/lib.rs), the server's accept loop   *)
(* and request handler (src/bin/server/main.rs) and the client's exchange  *)
(* (src/bin/client/main.rs), as one state machine.                         *)
(*                                                                         *)
(* Bytes are the integers 0..255, a Vec<u8> is a sequence of bytes, and a  *)
(* String is a sequence of bytes that is well-formed UTF-8.  Option<T> is  *)
(* a sequence of length at most one: None is <<>>, Some(x) is <<x>>.       *)
(***************************************************************************)
EXTENDS Integers, Sequences, FiniteSets, TLC

\* ------------------------------------------------------------------ bounds
\* Longest String (in bytes) the codec specification draws.
MaxStrLen == 2
\* Longest Vec<u8> payload the codec specification draws.
MaxBytesLen == 1
\* Longest file content a WRITE request of the dispatcher specification carries.
MaxFileLen == 1
\* Number of requests the dispatcher specification takes through the server.
MaxRequests == 3
\* Number of client processes (each performs one exchange).
MaxClients == 2
\* Bytes one transport segment carries from a sender to its peer.
Mss == 16
\* Longest buffer of arbitrary bytes the decoder specification hands over.
MaxRawLen == 10

\* ------------------------------------------------- program constants
\* vec![0; 1<<20]: capacity of request_buffer and response_buffer.
BufCap == 1048576

\* ------------------------------------------------------------ Option
None == << >>

Some(x) == << x >>

IsSome(o) == Len(o) = 1

Unwrap(o) == o[1]

\* ------------------------------------------------------- sequences
Min(a, b) == IF a <= b THEN a ELSE b

\* data[from .. to) with 0-based bounds, as a Rust range slice.
Slice(data, from, to) == SubSeq(data, from + 1, to)

Take(data, n) == SubSeq(data, 1, Min(n, Len(data)))

Drop(data, n) == SubSeq(data, Min(n, Len(data)) + 1, Len(data))

\* All sequences over S of length at most n.
SeqsUpTo(S, n) == UNION { [1..k -> S] : k \in 0..n }

\* --------------------------------------------------------- Operation
Operation == { "READ", "WRITE", "DELETE", "LIST" }

\* Discriminants numbered from one.
as_u8_from_one(op) ==
    CASE op = "READ" -> 1
      [] op = "WRITE" -> 2
      [] op = "DELETE" -> 3
      [] op = "LIST" -> 4

\* `op as u8`: the discriminant of the enum, in declaration order.
as_u8(op) ==
    CASE op = "READ" -> 0
      [] op = "WRITE" -> 1
      [] op = "DELETE" -> 2
      [] op = "LIST" -> 3

\* A from_u8 that takes every tag above 2 for LIST.
from_u8_lenient(value) ==
    CASE value = 0 -> Some("READ")
      [] value = 1 -> Some("WRITE")
      [] value = 2 -> Some("DELETE")
      [] OTHER -> Some("LIST")

\* Operation::from_u8: Option<Operation>.
from_u8(value) ==
    CASE value = 0 -> Some("READ")
      [] value = 1 -> Some("WRITE")
      [] value = 2 -> Some("DELETE")
      [] value = 3 -> Some("LIST")
      [] OTHER -> None

\* ------------------------------------------------------- integers
\* `len as u32`: truncation of a usize to 32 bits, n mod 2^32 computed on the
\* two 16-bit halves.
as_u32(n) == ((n \div 65536) % 65536) * 65536 + (n % 65536)

\* u32::to_le_bytes: the length written least significant byte first.
to_le_bytes(n) ==
    << n % 256, (n \div 256) % 256, (n \div 65536) % 256, (n \div 16777216) % 256 >>

\* u32::to_be_bytes.
to_be_bytes(n) ==
    << (n \div 16777216) % 256, (n \div 65536) % 256, (n \div 256) % 256, n % 256 >>

\* u32::from_be_bytes on a four-byte slice, `as usize`.  A value of 2^24 or
\* more is larger than every buffer (BufCap bytes at most) and is only ever
\* compared with buffer lengths: it is represented by 2^24.
from_be_bytes(b) ==
    IF b[1] # 0 THEN 16777216 ELSE (b[2] * 65536) + (b[3] * 256) + b[4]

\* ----------------------------------------------------------- UTF-8
IsCont(b) == b >= 128 /\ b <= 191

\* Number of bytes of the well-formed UTF-8 scalar at the head of s, 0 if none.
Utf8Head(s) ==
    LET n == Len(s)
        b1 == s[1]
    IN  IF n = 0 THEN 0
        ELSE IF b1 <= 127 THEN 1
        ELSE IF b1 >= 194 /\ b1 <= 223
            THEN IF n >= 2 /\ IsCont(s[2]) THEN 2 ELSE 0
        ELSE IF b1 >= 224 /\ b1 <= 239
            THEN IF n >= 3 /\ IsCont(s[2]) /\ IsCont(s[3])
                    /\ (b1 = 224 => s[2] >= 160)
                    /\ (b1 = 237 => s[2] <= 159)
                 THEN 3 ELSE 0
        ELSE IF b1 >= 240 /\ b1 <= 244
            THEN IF n >= 4 /\ IsCont(s[2]) /\ IsCont(s[3]) /\ IsCont(s[4])
                    /\ (b1 = 240 => s[2] >= 144)
                    /\ (b1 = 244 => s[2] <= 143)
                 THEN 4 ELSE 0
        ELSE 0

RECURSIVE IsUtf8(_)
\* String::from_utf8(v).is_ok().
IsUtf8(s) ==
    IF Len(s) = 0 THEN TRUE
    ELSE LET k == Utf8Head(s)
         IN  k > 0 /\ IsUtf8(Drop(s, k))

\* --------------------------------------------------- decode results
\* Result<T, Box<dyn Error>> of a decoder, or the panic of an out-of-range
\* index or slice (data[pos], data[pos..pos+n]).
Ok(v) == [kind |-> "Ok", val |-> v]

Err(e) == [kind |-> "Err", val |-> e]

Panic == [kind |-> "Panic", val |-> "index out of bounds"]

\* ------------------------------------------------------- Request
\* Length-prefixed field: u32 big-endian byte count, then the bytes.
PutField(bytes) == to_be_bytes(as_u32(Len(bytes))) \o bytes

serialize_request(req) ==
    << as_u8(req.op) >> \o PutField(req.filename) \o PutField(req.filebytes)

deserialize_request(data) ==
    IF Len(data) < 1 THEN Panic
    ELSE LET op == from_u8(data[1]) IN
    IF ~IsSome(op) THEN Err("Invalid operation")
    ELSE IF Len(data) < 5 THEN Panic
    ELSE LET filename_len == from_be_bytes(Slice(data, 1, 5))
             pos2 == 5 + filename_len IN
    IF pos2 > Len(data) THEN Panic
    ELSE LET filename == Slice(data, 5, pos2) IN
    IF ~IsUtf8(filename) THEN Err("Invalid UTF-8 sequence")
    ELSE IF pos2 + 4 > Len(data) THEN Panic
    ELSE LET file_len == from_be_bytes(Slice(data, pos2, pos2 + 4))
             pos3 == pos2 + 4 IN
    IF pos3 + file_len > Len(data) THEN Panic
    ELSE Ok([op |-> Unwrap(op), filename |-> filename,
             filebytes |-> Slice(data, pos3, pos3 + file_len)])

\* ------------------------------------------------------- Response
\* A test that also takes a present but empty filename and filebytes pair
\* (eight bytes of lengths) for the end of the buffer.
ExhaustedWithin8(pos, data) == pos + 8 >= Len(data)

\* `pos >= data.len()`: nothing follows msg, the file fields are absent.
Exhausted(pos, data) == pos >= Len(data)

serialize_response(res) ==
    << IF res.ok THEN 1 ELSE 0 >> \o PutField(res.msg)
        \o (IF IsSome(res.filename) THEN PutField(Unwrap(res.filename)) ELSE << >>)
        \o (IF IsSome(res.filebytes) THEN PutField(Unwrap(res.filebytes)) ELSE << >>)

deserialize_response(data) ==
    IF Len(data) < 1 THEN Panic
    ELSE LET ok == data[1] # 0 IN
    IF Len(data) < 5 THEN Panic
    ELSE LET msg_len == from_be_bytes(Slice(data, 1, 5))
             pos2 == 5 + msg_len IN
    IF pos2 > Len(data) THEN Panic
    ELSE LET msg == Slice(data, 5, pos2) IN
    IF ~IsUtf8(msg) THEN Err("Invalid UTF-8 sequence")
    ELSE IF Exhausted(pos2, data)
        THEN Ok([ok |-> ok, msg |-> msg, filename |-> None, filebytes |-> None])
    ELSE IF pos2 + 4 > Len(data) THEN Panic
    ELSE LET filename_len == from_be_bytes(Slice(data, pos2, pos2 + 4))
             pos3 == pos2 + 4 + filename_len IN
    IF pos3 > Len(data) THEN Panic
    ELSE LET filename == Slice(data, pos2 + 4, pos3) IN
    IF ~IsUtf8(filename) THEN Err("Invalid UTF-8 sequence")
    ELSE IF pos3 + 4 > Len(data) THEN Panic
    ELSE LET filebytes_len == from_be_bytes(Slice(data, pos3, pos3 + 4))
             pos4 == pos3 + 4 IN
    IF pos4 + filebytes_len > Len(data) THEN Panic
    ELSE Ok([ok |-> ok, msg |-> msg, filename |-> Some(filename),
             filebytes |-> Some(Slice(data, pos4, pos4 + filebytes_len))])

\* ------------------------------------------------------ file system
\* The server's file system, seen from its working directory, which is taken
\* to be the root directory (so ".." of it is itself).  fs maps the path of
\* every existing entry, a sequence of components, to its node.
Slash == 47

DotName == << 46 >>

DotDotName == << 46, 46 >>

Newline == 10

DirNode == [dir |-> TRUE, data |-> << >>]

FileNode(bytes) == [dir |-> FALSE, data |-> bytes]

RECURSIVE SplitBy(_, _)
\* The pieces of s between occurrences of sep, empty ones kept.
SplitBy(sep, s) ==
    IF \A i \in 1..Len(s) : s[i] # sep THEN << s >>
    ELSE LET i == CHOOSE i \in 1..Len(s) :
                      s[i] = sep /\ \A j \in 1..(i - 1) : s[j] # sep
         IN  << SubSeq(s, 1, i - 1) >> \o SplitBy(sep, SubSeq(s, i + 1, Len(s)))

\* The components of a path: its bytes between separators, empty ones kept.
Split(path) == SplitBy(Slash, path)

RECURSIVE Join(_)
\* Components joined with separators.
Join(comps) ==
    IF Len(comps) = 0 THEN << >>
    ELSE IF Len(comps) = 1 THEN comps[1]
    ELSE comps[1] \o << Slash >> \o Join(Tail(comps))

Exists(f, p) == p = << >> \/ p \in DOMAIN f

IsDir(f, p) == p = << >> \/ (p \in DOMAIN f /\ f[p].dir)

IsFile(f, p) == p \in DOMAIN f /\ ~f[p].dir

Parent(p) == IF Len(p) = 0 THEN p ELSE SubSeq(p, 1, Len(p) - 1)

Children(f, p) ==
    { q \in DOMAIN f : Len(q) = Len(p) + 1 /\ SubSeq(q, 1, Len(p)) = p }

RECURSIVE Walk(_, _, _, _)
\* Path resolution from directory cur over comps[i..]: every component but an
\* empty one is looked up in a directory that must exist; "." stays, ".." goes
\* up, a trailing separator demands a directory.
Walk(f, cur, comps, i) ==
    IF i > Len(comps) THEN [err |-> "", at |-> cur]
    ELSE LET c == comps[i] IN
    IF c = << >>
        THEN IF i < Len(comps) THEN Walk(f, cur, comps, i + 1)
             ELSE IF IsDir(f, cur) THEN [err |-> "", at |-> cur]
             ELSE IF Exists(f, cur) THEN [err |-> "ENOTDIR", at |-> cur]
             ELSE [err |-> "ENOENT", at |-> cur]
    ELSE IF ~Exists(f, cur) THEN [err |-> "ENOENT", at |-> cur]
    ELSE IF ~IsDir(f, cur) THEN [err |-> "ENOTDIR", at |-> cur]
    ELSE IF c = DotName THEN Walk(f, cur, comps, i + 1)
    ELSE IF c = DotDotName THEN Walk(f, Parent(cur), comps, i + 1)
    ELSE Walk(f, Append(cur, c), comps, i + 1)

\* Resolution of a path string; a NUL byte is rejected before any lookup.
Resolve(f, path) ==
    IF \E i \in 1..Len(path) : path[i] = 0 THEN [err |-> "EINVAL", at |-> << >>]
    ELSE IF Len(path) = 0 THEN [err |-> "ENOENT", at |-> << >>]
    ELSE Walk(f, << >>, Split(path), 1)

\* std::path::Path::components of a relative path: separators collapse and
\* "." vanishes except at the front.
PathComponents(path) ==
    LET cs == Split(path)
        keep == { i \in 1..Len(cs) : cs[i] # << >> /\ (cs[i] = DotName => i = 1) }
        Nth[k \in 0..Len(cs)] ==
            IF k = 0 THEN << >>
            ELSE IF k \in keep THEN Append(Nth[k - 1], cs[k]) ELSE Nth[k - 1]
    IN  Nth[Len(cs)]

\* Path::parent: the path without its final component, None for the empty path.
PathParent(path) ==
    LET cs == PathComponents(path)
    IN  IF Len(cs) = 0 THEN None ELSE Some(Join(Parent(cs)))

\* mkdir(2) of the entry last in the directory dir.
MkdirIn(f, dir, last) ==
    IF ~Exists(f, dir) THEN [err |-> "ENOENT", fs |-> f]
    ELSE IF ~IsDir(f, dir) THEN [err |-> "ENOTDIR", fs |-> f]
    ELSE IF last = DotName \/ last = DotDotName \/ Exists(f, Append(dir, last))
        THEN [err |-> "EEXIST", fs |-> f]
    ELSE [err |-> "", fs |-> (Append(dir, last) :> DirNode) @@ f]

\* mkdir(2) of the path of components cs, par the resolution of all but the
\* last of them.
MkdirAt(f, cs, par) ==
    IF Len(cs) = 0 THEN [err |-> "ENOENT", fs |-> f]
    ELSE IF Len(cs) = 1 THEN MkdirIn(f, << >>, cs[1])
    ELSE IF par.err # "" THEN [err |-> par.err, fs |-> f]
    ELSE MkdirIn(f, par.at, cs[Len(cs)])

MkdirOf(f, cs) == MkdirAt(f, cs, Resolve(f, Join(Parent(cs))))

\* mkdir(2).
Mkdir(f, path) == MkdirOf(f, PathComponents(path))

\* Path::is_dir: the path resolves to an existing directory.
PathIsDir(f, path) ==
    LET r == Resolve(f, path) IN r.err = "" /\ IsDir(f, r.at)

\* A failed mkdir is forgiven when the path is a directory after all.
MadeOrIsDir(f, path, made) ==
    IF made.err = "" THEN made
    ELSE IF PathIsDir(f, path) THEN [err |-> "", fs |-> f]
    ELSE made

\* With the parent in place (or not), the second mkdir of the path.
AfterParent(path, up) ==
    IF up.err # "" THEN up ELSE MadeOrIsDir(up.fs, path, Mkdir(up.fs, path))

RECURSIVE create_dir_all(_, _)
\* The outcome of the first mkdir: done, or the parent first on NotFound.
AfterMkdir(f, path, first, parent) ==
    IF first.err # "ENOENT" THEN MadeOrIsDir(f, path, first)
    ELSE IF ~IsSome(parent) THEN first
    ELSE AfterParent(path, create_dir_all(f, Unwrap(parent)))

\* std::fs::DirBuilder::create_dir_all: mkdir, and on NotFound the parent
\* first; an error is forgiven when the path is a directory after all.
create_dir_all(f, path) ==
    IF path = << >> THEN [err |-> "", fs |-> f]
    ELSE AfterMkdir(f, path, Mkdir(f, path), PathParent(path))

\* File::open then read_to_end: the contents, "open" when the open fails,
\* "read" when the opened entry is a directory and the read fails.
OpenRead(f, path) ==
    LET r == Resolve(f, path) IN
    IF r.err # "" \/ ~Exists(f, r.at) THEN [err |-> "open", data |-> << >>]
    ELSE IF IsDir(f, r.at) THEN [err |-> "read", data |-> << >>]
    ELSE [err |-> "", data |-> f[r.at].data]

\* File::create, write_all, flush: the entry is created or truncated and
\* then holds exactly bytes.
CreateWrite(f, path, bytes) ==
    LET r == Resolve(f, path) IN
    IF r.err # "" THEN [err |-> r.err, fs |-> f]
    ELSE IF IsDir(f, r.at) THEN [err |-> "EISDIR", fs |-> f]
    ELSE [err |-> "", fs |-> (r.at :> FileNode(bytes)) @@ f]

\* tokio::fs::remove_file: unlink(2).
remove_file(f, path) ==
    LET r == Resolve(f, path) IN
    IF r.err # "" THEN [err |-> r.err, fs |-> f]
    ELSE IF ~Exists(f, r.at) THEN [err |-> "ENOENT", fs |-> f]
    ELSE IF IsDir(f, r.at) THEN [err |-> "EISDIR", fs |-> f]
    ELSE [err |-> "", fs |-> [q \in DOMAIN f \ { r.at } |-> f[q]]]

\* ------------------------------------------------------ dispatcher
\* "files": the store root, relative to the server's working directory.
StoreRoot == << 102, 105, 108, 101, 115 >>

MsgReturned ==
    << 70, 105, 108, 101, 32, 115, 117, 99, 99, 101, 115, 115, 102, 117, 108, 108,
       121, 32, 114, 101, 116, 117, 114, 110, 101, 100, 46 >>

MsgNotFound ==
    << 70, 105, 108, 101, 32, 110, 111, 116, 32, 102, 111, 117, 110, 100, 32, 111,
       110, 32, 115, 101, 114, 118, 101, 114, 46 >>

MsgStored ==
    << 70, 105, 108, 101, 32, 115, 117, 99, 99, 101, 115, 115, 102, 117, 108, 108,
       121, 32, 115, 116, 111, 114, 101, 100, 46 >>

MsgDeleted ==
    << 70, 105, 108, 101, 32, 115, 117, 99, 99, 101, 115, 115, 102, 117, 108, 108,
       121, 32, 100, 101, 108, 101, 116, 101, 100, 46 >>

MsgNotDeleted ==
    << 70, 105, 108, 101, 32, 99, 111, 117, 108, 100, 32, 110, 111, 116, 32, 98,
       101, 32, 100, 101, 108, 101, 116, 101, 100, 46 >>

Response(ok, msg, filename, filebytes) ==
    [ok |-> ok, msg |-> msg, filename |-> filename, filebytes |-> filebytes]

\* format!("files/{}", &req.filename)
StorePath(filename) == StoreRoot \o << Slash >> \o filename

RECURSIVE to_string_lossy(_)
\* Path::to_string_lossy: the bytes, an ill-formed one replaced by U+FFFD.
to_string_lossy(bytes) ==
    IF Len(bytes) = 0 THEN << >>
    ELSE LET k == Utf8Head(bytes) IN
         IF k > 0 THEN Take(bytes, k) \o to_string_lossy(Drop(bytes, k))
         ELSE << 239, 191, 189 >> \o to_string_lossy(Drop(bytes, 1))

\* The orders in which read_dir may yield the entries of a directory.
Orders(S) ==
    { o \in [1..Cardinality(S) -> S] : \A i, j \in DOMAIN o : o[i] = o[j] => i = j }

RECURSIVE ListLinesAll(_, _)
\* A listing loop without the is_file test: every entry is listed.
ListLinesAll(f, entries) ==
    IF Len(entries) = 0 THEN << >>
    ELSE to_string_lossy(Join(Head(entries))) \o << Newline >>
             \o ListLinesAll(f, Tail(entries))

RECURSIVE ListLines(_, _)
\* The loop over next_entry: the path of each regular file, then "\n".
ListLines(f, entries) ==
    IF Len(entries) = 0 THEN << >>
    ELSE LET path == Join(Head(entries))
             line == IF IsFile(f, Head(entries))
                     THEN to_string_lossy(path) \o << Newline >> ELSE << >>
         IN  line \o ListLines(f, Tail(entries))

\* A READ arm that puts the file fields in the failed response too.
DoReadEcho(f, req) ==
    LET r == OpenRead(f, StorePath(req.filename)) IN
    IF r.err = ""
        THEN [res |-> Ok(Response(TRUE, MsgReturned, Some(req.filename), Some(r.data))),
              fs |-> f]
    ELSE [res |-> Ok(Response(FALSE, MsgNotFound, Some(req.filename), Some(<< >>))),
          fs |-> f]

\* Operation::READ arm.
DoRead(f, req) ==
    LET r == OpenRead(f, StorePath(req.filename)) IN
    IF r.err = ""
        THEN [res |-> Ok(Response(TRUE, MsgReturned, Some(req.filename), Some(r.data))),
              fs |-> f]
    ELSE IF r.err = "open"
        THEN [res |-> Ok(Response(FALSE, MsgNotFound, None, None)), fs |-> f]
    ELSE [res |-> Err("read_to_end"), fs |-> f]

\* create_dir_all on the parent of the path, when it has one.
MakeParent(f, parent) ==
    IF IsSome(parent) THEN create_dir_all(f, Unwrap(parent)) ELSE [err |-> "", fs |-> f]

\* The response once File::create, write_all and flush have run.
Written(w) ==
    IF w.err # "" THEN [res |-> Err("File::create"), fs |-> w.fs]
    ELSE [res |-> Ok(Response(TRUE, MsgStored, None, None)), fs |-> w.fs]

\* The file is created and written once its parent directory is in place.
WriteUnder(made, path, bytes) ==
    IF made.err # "" THEN [res |-> Err("create_dir_all"), fs |-> made.fs]
    ELSE Written(CreateWrite(made.fs, path, bytes))

\* Operation::WRITE arm.
DoWrite(f, req) ==
    WriteUnder(MakeParent(f, PathParent(StorePath(req.filename))),
               StorePath(req.filename), req.filebytes)

\* Operation::DELETE arm.
DoDelete(f, req) ==
    LET r == remove_file(f, StorePath(req.filename)) IN
    IF r.err = ""
        THEN [res |-> Ok(Response(TRUE, MsgDeleted, None, None)), fs |-> r.fs]
    ELSE [res |-> Ok(Response(FALSE, MsgNotDeleted, None, None)), fs |-> f]

\* Operation::LIST arm; order is the order read_dir yields the entries in.
DoList(f, order) ==
    LET r == Resolve(f, StoreRoot) IN
    IF r.err # "" \/ ~IsDir(f, r.at) THEN [res |-> Err("read_dir"), fs |-> f]
    ELSE [res |-> Ok(Response(TRUE, ListLines(f, order), None, None)), fs |-> f]

\* The match on req.op of handle_client.
Dispatch(f, req, order) ==
    CASE req.op = "READ" -> DoRead(f, req)
      [] req.op = "WRITE" -> DoWrite(f, req)
      [] req.op = "DELETE" -> DoDelete(f, req)
      [] req.op = "LIST" -> DoList(f, order)

\* The response buffer of a dispatched request, or the error it ended in.
Dispatched(req, r) ==
    IF r.res.kind # "Ok"
        THEN [out |-> r.res, req |-> Some(req), res |-> None, fs |-> r.fs]
    ELSE [out |-> Ok(serialize_response(r.res.val)), req |-> Some(req),
          res |-> Some(r.res.val), fs |-> r.fs]

\* The decoded request is dispatched; a decoding error or panic goes up.
Decoded(f, d, order) ==
    IF d.kind # "Ok" THEN [out |-> d, req |-> None, res |-> None, fs |-> f]
    ELSE Dispatched(d.val, Dispatch(f, d.val, order))

\* handle_client between the read of the request and the write of the
\* response: decode, dispatch, encode.  out is the response buffer, or the
\* error returned, or the panic.
Process(f, request_buffer, order) ==
    Decoded(f, deserialize_request(request_buffer), order)

\* =================================================================== state
VARIABLES
    codec,    \* a value on its way through the codec: encode, cut, decode
    fs,       \* the server's file system
    srv,      \* the server process: position in main / handle_client, buffers
    net,      \* per connection: the listener's view and both byte streams
    cli,      \* per client: position in run, request, response, outcome
    hist      \* history of the requests the dispatcher has handled

vars == << codec, fs, srv, net, cli, hist >>

\* ------------------------------------------------------ input domains
NameA == << 97 >>

NameB == << 98 >>

\* A file of the working directory that is not part of the store.
OutsideFile == << 107 >>

\* "/a": the separator in front of a plain name.
NameSlashA == << Slash, 97 >>

\* "a/b": a name with a directory part.
NameAB == << 97, Slash, 98 >>

\* "../k": a name that climbs out of the store root.
NameUpK == << 46, 46, Slash, 107 >>

FileByteSet == { 1, 2 }

Contents == SeqsUpTo(FileByteSet, MaxFileLen)

\* File names a peer may put in a request frame.
StoreNames == { << >>, NameA, NameB, NameSlashA, NameAB, NameUpK }

Request(op, filename, filebytes) ==
    [op |-> op, filename |-> filename, filebytes |-> filebytes]

StoreRequests ==
    { Request(op, n, << >>) : op \in { "READ", "DELETE" }, n \in StoreNames }
        \cup { Request("WRITE", n, b) : n \in StoreNames, b \in Contents }
        \cup { Request("LIST", << >>, << >>) }

\* The working directory before the first request: a file beside the store,
\* and the store root either not yet created or created and empty.
InitialFs ==
    { << OutsideFile >> :> FileNode(<< 7 >>),
      (<< OutsideFile >> :> FileNode(<< 7 >>)) @@ (<< StoreRoot >> :> DirNode) }

\* ------------------------------------------------------------ history
\* count:   the number of requests handled.
\* last:    the request most recently handled, its response if one was built,
\*          the file system before it, and what `since` held for its name.
\* since:   the pairs <<N, B>> such that the most recent request naming N was
\*          a WRITE of B answered ok=true.
\* written: the names of the WRITE requests answered ok=true.
\* deleted: whether a DELETE request has been handled.
\* latest:  the triples <<N, cur, old>> such that the most recent WRITE or
\*          DELETE of N answered ok=true was a WRITE of B (cur = Some(B)) or a
\*          DELETE (cur = None), and old was cur before it (None at first).
NoHist ==
    [count |-> 0, last |-> None, since |-> { }, written |-> { }, deleted |-> FALSE,
     latest |-> { }]

LatestOf(h, name) == { t \in h.latest : t[1] = name }

\* cur of the name's triple, None when it has none.
CurOf(h, name) ==
    IF LatestOf(h, name) = { } THEN None
    ELSE (CHOOSE t \in LatestOf(h, name) : TRUE)[2]

Changed(h, name, cur) ==
    (h.latest \ LatestOf(h, name)) \cup { << name, cur, CurOf(h, name) >> }

SinceOf(h, name) == { p[2] : p \in { q \in h.since : q[1] = name } }

Recorded(h, f, p) ==
    IF ~IsSome(p.req) THEN h
    ELSE LET req == Unwrap(p.req)
             okay == IsSome(p.res) /\ Unwrap(p.res).ok
             rest == { q \in h.since : q[1] # req.filename }
         IN  [count |-> h.count + 1,
              last |-> Some([req |-> req, res |-> p.res, before |-> f,
                             pre |-> SinceOf(h, req.filename)]),
              since |-> IF req.op = "LIST" THEN h.since
                        ELSE IF req.op = "WRITE" /\ okay
                            THEN rest \cup { << req.filename, req.filebytes >> }
                        ELSE rest,
              written |-> IF req.op = "WRITE" /\ okay
                          THEN h.written \cup { req.filename } ELSE h.written,
              deleted |-> h.deleted \/ req.op = "DELETE",
              latest |-> IF req.op = "WRITE" /\ okay
                             THEN Changed(h, req.filename, Some(req.filebytes))
                         ELSE IF req.op = "DELETE" /\ okay
                             THEN Changed(h, req.filename, None)
                         ELSE h.latest]

\* ------------------------------------------------- idle components
NoCodec == [phase |-> "idle", kind |-> "none", val |-> << >>, frame |-> << >>,
            buf |-> << >>, out |-> Ok(<< >>)]

Clients == 1..MaxClients

\* main at the accept call, no connection in hand.
SrvIdle == [pc |-> "accept", con |-> 0, backlog |-> << >>, out |-> << >>,
            cause |-> "", spun |-> FALSE]

\* A connection that was never opened.  up / down are the bytes in flight to
\* the server / the client, upr / downr the bytes arrived and not yet read.
NoConn == [state |-> "none", up |-> << >>, upr |-> << >>, down |-> << >>,
           downr |-> << >>, cfin |-> FALSE]

NoNet == [c \in Clients |-> NoConn]

\* A client process that has not started.
NoProc == [pc |-> "idle", operation |-> "LIST", disk |-> << >>, req |-> None,
           request_buffer |-> << >>, res |-> None, exit |-> "", spun |-> FALSE]

NoCli == [c \in Clients |-> NoProc]

\* ============================================================ the codec
Utf8ByteSet == { 97, 195, 169 }

RawByteSet == { 0, 255 }

Strings == { s \in SeqsUpTo(Utf8ByteSet, MaxStrLen) : IsUtf8(s) }

Payloads == SeqsUpTo(RawByteSet, MaxBytesLen)

CodecRequests ==
    { Request(op, n, b) : op \in Operation, n \in Strings, b \in Payloads }

CodecResponses ==
    { Response(ok, m, None, None) : ok \in BOOLEAN, m \in Strings }
        \cup { Response(ok, m, Some(n), Some(b)) :
                 ok \in BOOLEAN, m \in Strings, n \in Strings, b \in Payloads }

InitCodec ==
    /\ codec = NoCodec
    /\ fs = << >> /\ srv = SrvIdle /\ net = NoNet /\ cli = NoCli /\ hist = NoHist

\* serialize_request on a Request.
EncodeRequest ==
    /\ codec.phase = "idle"
    /\ \E r \in CodecRequests :
         codec' = [codec EXCEPT !.phase = "encoded", !.kind = "request", !.val = r,
                                !.frame = serialize_request(r)]
    /\ UNCHANGED << fs, srv, net, cli, hist >>

\* serialize_response on a Response.
EncodeResponse ==
    /\ codec.phase = "idle"
    /\ \E r \in CodecResponses :
         codec' = [codec EXCEPT !.phase = "encoded", !.kind = "response", !.val = r,
                                !.frame = serialize_response(r)]
    /\ UNCHANGED << fs, srv, net, cli, hist >>

\* The decoder is handed the first n bytes of the frame: all of it, or a
\* proper prefix.
Hand ==
    /\ codec.phase = "encoded"
    /\ \E n \in 0..Len(codec.frame) :
         codec' = [codec EXCEPT !.phase = "handed", !.buf = Take(codec.frame, n)]
    /\ UNCHANGED << fs, srv, net, cli, hist >>

\* deserialize_request on the buffer.
DecodeRequest ==
    /\ codec.phase = "handed" /\ codec.kind = "request"
    /\ codec' = [codec EXCEPT !.phase = "decoded", !.out = deserialize_request(codec.buf)]
    /\ UNCHANGED << fs, srv, net, cli, hist >>

\* deserialize_response on the buffer.
DecodeResponse ==
    /\ codec.phase = "handed" /\ codec.kind = "response"
    /\ codec' = [codec EXCEPT !.phase = "decoded", !.out = deserialize_response(codec.buf)]
    /\ UNCHANGED << fs, srv, net, cli, hist >>

NextCodec ==
    \/ EncodeRequest
    \/ EncodeResponse
    \/ Hand
    \/ DecodeRequest
    \/ DecodeResponse

SpecCodec == InitCodec /\ [][NextCodec]_vars

\* ------------------------------------- the decoder on arbitrary buffers
\* First bytes: the four tags, the first value past them and the last u8.
TagByteSet == { 0, 1, 2, 3, 4, 255 }

\* Buffers as a peer may send them: any first byte, then any bytes.
RawBuffers ==
    { << t >> \o rest : t \in TagByteSet, rest \in SeqsUpTo({ 0, 1 }, MaxRawLen - 1) }

\* The decoder is handed a buffer that no encoder of this program built.
HandRaw ==
    /\ codec.phase = "idle"
    /\ \E b \in RawBuffers :
         codec' = [codec EXCEPT !.phase = "handed", !.kind = "request",
                                !.frame = b, !.buf = b]
    /\ UNCHANGED << fs, srv, net, cli, hist >>

NextDecode ==
    \/ HandRaw
    \/ DecodeRequest

SpecDecode == InitCodec /\ [][NextDecode]_vars

\* ======================================================= the dispatcher
InitStore ==
    /\ codec = NoCodec
    /\ fs \in InitialFs /\ srv = SrvIdle /\ net = NoNet /\ cli = NoCli /\ hist = NoHist

\* The server after handle_client has run to outcome p: an error or a panic
\* ends it (main returns the error).
Outcome(p) ==
    /\ fs' = p.fs
    /\ hist' = Recorded(hist, fs, p)
    /\ srv' = IF p.out.kind = "Ok" THEN srv
              ELSE [srv EXCEPT !.pc = IF p.out.kind = "Err" THEN "exited"
                                      ELSE "panicked",
                               !.cause = p.out.val]

\* One request taken through handle_client by a running server: its frame is
\* decoded, dispatched against the store and the response encoded.
Handle ==
    /\ srv.pc = "accept"
    /\ hist.count < MaxRequests
    /\ \E req \in StoreRequests, order \in Orders(Children(fs, << StoreRoot >>)) :
         Outcome(Process(fs, serialize_request(req), order))
    /\ UNCHANGED << codec, net, cli >>

NextStore == Handle

SpecStore == InitStore /\ [][NextStore]_vars

\* ============================================== the server and its clients
\* ------------------------------------------------------- client inputs
\* "x/b": a local path with a directory part.
LocalXB == << 120, Slash, 98 >>

\* "received": the directory the client saves a READ file under.
ReceiveRoot == << 114, 101, 99, 101, 105, 118, 101, 100 >>

ClientPaths == { NameA, LocalXB }

\* The client's working directory holding one file, at path, with bytes.
DiskWith(path, bytes) ==
    LET cs == PathComponents(path)
    IN  [q \in { SubSeq(cs, 1, k) : k \in 1..Len(cs) } |->
            IF q = cs THEN FileNode(bytes) ELSE DirNode]

Config(operation, filename, disk) ==
    [operation |-> operation, filename |-> filename, disk |-> disk]

\* What parse_args can return, with the working directory the client runs in:
\* the file to send is there, holding one byte, or (for "a") is missing.
Configs ==
    { Config("LIST", None, << >>) }
        \cup { Config(op, Some(NameA), << >>) : op \in { "READ", "DELETE", "WRITE" } }
        \cup { Config("WRITE", Some(n), DiskWith(n, << 1 >>)) : n \in ClientPaths }

\* Frames a peer that is not this client can put on a connection: requests
\* naming "/a" and "../k", and a frame with an operation tag outside 0..3.
PeerRequests ==
    { Request("WRITE", NameSlashA, << 2 >>), Request("READ", NameUpK, << >>) }

UnknownOpFrame == << 9 >>

\* Path::file_name: the final component when it is a normal one.
file_name(path) ==
    LET cs == PathComponents(path)
    IN  IF Len(cs) = 0 THEN None
        ELSE IF cs[Len(cs)] = DotName \/ cs[Len(cs)] = DotDotName THEN None
        ELSE Some(cs[Len(cs)])

\* ------------------------------------------------------------ process ends
\* The server process is gone: its sockets are closed under the peers.
Closed(n) ==
    [c \in Clients |->
        IF n[c].state \in { "queued", "accepted" }
            THEN [n[c] EXCEPT !.state = "reset", !.up = << >>, !.upr = << >>]
        ELSE n[c]]

\* main returns the error handle_client or accept returned, or unwinds.
Down(kind, cause) ==
    [SrvIdle EXCEPT !.pc = IF kind = "Panic" THEN "panicked" ELSE "exited",
                    !.cause = cause]

\* run returns.
Ended(proc, exit) == [proc EXCEPT !.pc = "done", !.exit = exit, !.spun = FALSE]

Init ==
    /\ codec = NoCodec
    /\ fs \in InitialFs /\ srv = SrvIdle /\ net = NoNet /\ cli = NoCli /\ hist = NoHist

\* ------------------------------------------------------------- the client
\* run up to serialize_request: the basename of the path, the bytes of the
\* local file for a WRITE, the request and its frame.
ClientBuild(c, config) ==
    /\ cli[c].pc = "idle"
    /\ LET filename == IF IsSome(config.filename) THEN Unwrap(config.filename) ELSE << >>
           base == file_name(filename)
           basename == IF IsSome(base) THEN to_string_lossy(Unwrap(base)) ELSE << >>
           reads == config.operation = "WRITE" /\ filename # << >>
           local == OpenRead(config.disk, filename)
           req == Request(config.operation, basename,
                          IF reads THEN local.data ELSE << >>)
           proc == [cli[c] EXCEPT !.operation = config.operation, !.disk = config.disk]
       IN  cli' = [cli EXCEPT ![c] =
                      IF reads /\ local.err # "" THEN Ended(proc, "err")
                      ELSE [proc EXCEPT !.pc = "connect", !.req = Some(req),
                                        !.request_buffer = serialize_request(req)]]
    /\ UNCHANGED << codec, fs, srv, net, hist >>

\* A peer other than this client, about to connect with a frame of its own.
PeerBuild(c, frame, req) ==
    /\ cli[c].pc = "idle"
    /\ cli' = [cli EXCEPT ![c] =
                  [@ EXCEPT !.pc = "connect", !.req = req, !.request_buffer = frame,
                            !.operation = IF IsSome(req) THEN Unwrap(req).op ELSE "LIST"]]
    /\ UNCHANGED << codec, fs, srv, net, hist >>

\* TcpStream::connect: refused when nothing listens, else the connection
\* waits in the listener's backlog.
ClientConnect(c) ==
    /\ cli[c].pc = "connect"
    /\ IF srv.pc \in { "exited", "panicked" }
           THEN /\ cli' = [cli EXCEPT ![c] = Ended(@, "err")]
                /\ UNCHANGED << srv, net >>
       ELSE /\ cli' = [cli EXCEPT ![c] = [@ EXCEPT !.pc = "send"]]
            /\ net' = [net EXCEPT ![c] = [@ EXCEPT !.state = "queued"]]
            /\ srv' = [srv EXCEPT !.backlog = Append(@, c)]
    /\ UNCHANGED << codec, fs, hist >>

\* writable, then the try_write loop: the frame goes out, or the write fails
\* on a connection the server end of which is gone.
ClientSend(c) ==
    /\ cli[c].pc = "send"
    /\ IF net[c].state = "reset"
           THEN /\ cli' = [cli EXCEPT ![c] = Ended(@, "err")]
                /\ net' = net
       ELSE /\ cli' = [cli EXCEPT ![c] = [@ EXCEPT !.pc = "readable"]]
            /\ net' = [net EXCEPT ![c] = [@ EXCEPT !.up = @ \o cli[c].request_buffer]]
    /\ UNCHANGED << codec, fs, srv, hist >>

\* The peer goes away after connecting and before sending: its end is closed
\* (how = "fin") or the connection is reset (how = "rst").
ClientGone(c, how) ==
    /\ cli[c].pc = "send"
    /\ net[c].state \in { "queued", "accepted" }
    /\ cli' = [cli EXCEPT ![c] = Ended(@, "gone")]
    /\ net' = [net EXCEPT ![c] = IF how = "fin" THEN [@ EXCEPT !.cfin = TRUE]
                                 ELSE [@ EXCEPT !.state = "aborted"]]
    /\ UNCHANGED << codec, fs, srv, hist >>

\* stream.readable().await returns; the readiness may be a false positive.
ClientReadable(c) ==
    /\ cli[c].pc = "readable"
    /\ cli' = [cli EXCEPT ![c] = [@ EXCEPT !.pc = "try_read"]]
    /\ UNCHANGED << codec, fs, srv, net, hist >>

\* run returns the response's ok once the file has been written.
Saved(got, w, exit) ==
    IF w.err # "" THEN Ended([got EXCEPT !.disk = w.fs], "err")
    ELSE Ended([got EXCEPT !.disk = w.fs], exit)

\* The file of the response is written under received/.
SaveUnder(got, made, path, bytes, exit) ==
    IF made.err # "" THEN Ended([got EXCEPT !.disk = made.fs], "err")
    ELSE Saved(got, CreateWrite(made.fs, path, bytes), exit)

\* run after deserialize_response returned the response.
Received(proc, response) ==
    IF ~(IsSome(response.filename) /\ IsSome(response.filebytes)
           /\ proc.operation = "READ")
        THEN Ended([proc EXCEPT !.res = Some(response)],
                   IF response.ok THEN "ok" ELSE "err")
    ELSE SaveUnder([proc EXCEPT !.res = Some(response)],
                   MakeParent(proc.disk, PathParent(ReceiveRoot \o << Slash >>
                                                       \o Unwrap(response.filename))),
                   ReceiveRoot \o << Slash >> \o Unwrap(response.filename),
                   Unwrap(response.filebytes),
                   IF response.ok THEN "ok" ELSE "err")

\* deserialize_response returned d.
Deserialized(proc, d) ==
    IF d.kind = "Panic" THEN Ended(proc, "panic")
    ELSE IF d.kind = "Err" THEN Ended(proc, "err")
    ELSE Received(proc, d.val)

\* run from deserialize_response on: the file of a READ response is saved
\* under received/, and the outcome is the response's ok.
Finish(proc, response_buffer) ==
    Deserialized(proc, deserialize_response(response_buffer))

\* One turn of the try_read loop, and the rest of run when the read returns:
\* an error on a reset connection, the bytes that have arrived, no byte when
\* the server has closed and nothing is on its way, else would-block and the
\* loop goes round.
ClientTryRead(c) ==
    /\ cli[c].pc = "try_read"
    /\ LET n == net[c] IN
       IF n.state = "reset"
           THEN /\ cli' = [cli EXCEPT ![c] = Ended(@, "err")]
                /\ net' = net
       ELSE IF n.downr # << >>
           THEN /\ cli' = [cli EXCEPT ![c] = Finish(@, Take(n.downr, BufCap))]
                /\ net' = [net EXCEPT ![c] = [@ EXCEPT !.downr = Drop(n.downr, BufCap)]]
       ELSE IF n.state = "closed" /\ n.down = << >>
           THEN /\ cli' = [cli EXCEPT ![c] = Finish(@, << >>)]
                /\ net' = net
       ELSE /\ cli' = [cli EXCEPT ![c] = [@ EXCEPT !.spun = TRUE]]
            /\ net' = net
    /\ UNCHANGED << codec, fs, srv, hist >>

\* ------------------------------------------------------------- the server
\* listener.accept() returns the connection at the head of the backlog, and
\* main awaits handle_client on it.
ServerAccept ==
    /\ srv.pc = "accept"
    /\ srv.backlog # << >>
    /\ LET c == Head(srv.backlog) IN
       /\ srv' = [srv EXCEPT !.pc = "readable", !.con = c, !.backlog = Tail(@)]
       /\ net' = [net EXCEPT ![c] =
                     IF @.state = "queued" THEN [@ EXCEPT !.state = "accepted"] ELSE @]
    /\ UNCHANGED << codec, fs, cli, hist >>

\* listener.accept() returns an error, and main returns it.
AcceptFails ==
    /\ srv.pc = "accept"
    /\ srv' = Down("Err", "accept")
    /\ net' = Closed(net)
    /\ UNCHANGED << codec, fs, cli, hist >>

\* stream.readable().await returns; the readiness may be a false positive.
ServerReadable ==
    /\ srv.pc = "readable"
    /\ srv' = [srv EXCEPT !.pc = "try_read"]
    /\ UNCHANGED << codec, fs, net, cli, hist >>

\* handle_client from the decoding of the buffer the read returned up to the
\* response buffer, p its outcome and left the connections after the read.
\* An error goes up through main and ends the process, as a panic does.
Served(p, left) ==
    /\ fs' = p.fs
    /\ hist' = Recorded(hist, fs, p)
    /\ IF p.out.kind = "Ok"
           THEN /\ srv' = [srv EXCEPT !.pc = "send", !.out = p.out.val, !.spun = FALSE]
                /\ net' = left
       ELSE /\ srv' = Down(p.out.kind, p.out.val)
            /\ net' = Closed(left)

Serve(request_buffer, rest, order) ==
    Served(Process(fs, request_buffer, order),
           [net EXCEPT ![srv.con] = [@ EXCEPT !.upr = rest]])

\* One turn of the try_read loop, and handle_client's work when the read
\* returns: an error on a reset connection, the bytes that have arrived, no
\* byte when the peer has closed and nothing is on its way, else would-block
\* and the loop goes round.
ServerTryRead ==
    /\ srv.pc = "try_read"
    /\ LET n == net[srv.con] IN
       IF n.state = "aborted"
           THEN /\ srv' = Down("Err", "try_read")
                /\ net' = Closed(net)
                /\ UNCHANGED << fs, hist >>
       ELSE IF n.upr # << >>
           THEN \E order \in Orders(Children(fs, << StoreRoot >>)) :
                    Serve(Take(n.upr, BufCap), Drop(n.upr, BufCap), order)
       ELSE IF n.cfin /\ n.up = << >>
           THEN \E order \in Orders(Children(fs, << StoreRoot >>)) :
                    Serve(<< >>, << >>, order)
       ELSE /\ srv' = [srv EXCEPT !.spun = TRUE]
            /\ UNCHANGED << fs, net, hist >>
    /\ UNCHANGED << codec, cli >>

\* writable, then the try_write loop; handle_client returns Ok, the stream
\* is dropped and main is back at accept.
ServerSend ==
    /\ srv.pc = "send"
    /\ LET c == srv.con IN
       net' = [net EXCEPT ![c] = [@ EXCEPT !.state = "closed", !.down = @ \o srv.out]]
    /\ srv' = [srv EXCEPT !.pc = "accept", !.con = 0, !.out = << >>]
    /\ UNCHANGED << codec, fs, cli, hist >>

\* ---------------------------------------------------------- the transport
\* One segment, of at most Mss bytes, arrives at the server.
DeliverUp(c) ==
    /\ net[c].state \in { "queued", "accepted" }
    /\ net[c].up # << >>
    /\ net' = [net EXCEPT ![c] = [@ EXCEPT !.upr = @ \o Take(net[c].up, Mss),
                                           !.up = Drop(@, Mss)]]
    /\ UNCHANGED << codec, fs, srv, cli, hist >>

\* One segment, of at most Mss bytes, arrives at the client.
DeliverDown(c) ==
    /\ net[c].down # << >>
    /\ net' = [net EXCEPT ![c] = [@ EXCEPT !.downr = @ \o Take(net[c].down, Mss),
                                           !.down = Drop(@, Mss)]]
    /\ UNCHANGED << codec, fs, srv, cli, hist >>

Next ==
    \/ \E c \in Clients, config \in Configs : ClientBuild(c, config)
    \/ \E c \in Clients, r \in PeerRequests : PeerBuild(c, serialize_request(r), Some(r))
    \/ \E c \in Clients : PeerBuild(c, UnknownOpFrame, None)
    \/ \E c \in Clients : ClientConnect(c)
    \/ \E c \in Clients : ClientSend(c)
    \/ \E c \in Clients, how \in { "fin", "rst" } : ClientGone(c, how)
    \/ \E c \in Clients : ClientReadable(c)
    \/ \E c \in Clients : ClientTryRead(c)
    \/ ServerAccept
    \/ AcceptFails
    \/ ServerReadable
    \/ ServerTryRead
    \/ ServerSend
    \/ \E c \in Clients : DeliverUp(c)
    \/ \E c \in Clients : DeliverDown(c)

Spec == Init /\ [][Next]_vars

\* ================================= the client against a server of any kind
\* Responses a server at config.addr may send: any ok, with or without a file.
ForeignResponses ==
    { Response(ok, m, None, None) : ok \in BOOLEAN, m \in { << >>, NameA } }
        \cup { Response(ok, m, Some(n), Some(b)) :
                 ok \in BOOLEAN, m \in { << >>, NameA },
                 n \in { NameA, NameUpK }, b \in Contents }

\* The server the client connected to answers the request it was sent with
\* the frame of res and closes.
ForeignAnswer(c, res) ==
    /\ cli[c].pc \in { "readable", "try_read" }
    /\ net[c].state = "queued"
    /\ net' = [net EXCEPT ![c] = [@ EXCEPT !.state = "closed", !.up = << >>,
                                           !.down = serialize_response(res)]]
    /\ UNCHANGED << codec, fs, srv, cli, hist >>

NextClient ==
    \/ \E config \in Configs : ClientBuild(1, config)
    \/ ClientConnect(1)
    \/ ClientSend(1)
    \/ ClientReadable(1)
    \/ \E res \in ForeignResponses : ForeignAnswer(1, res)
    \/ DeliverDown(1)
    \/ ClientTryRead(1)

SpecClient == Init /\ [][NextClient]_vars

\* =========================================================== properties
\* ----------------------------------------------------------- the codec
CodecDecoded(kind) == codec.phase = "decoded" /\ codec.kind = kind

WholeFrame == codec.buf = codec.frame

\* C1: decoding the frame serialize_request built for a Request succeeds
\* and returns a Request with the same op, filename and filebytes.
C1_RequestRoundTrip ==
    (CodecDecoded("request") /\ WholeFrame) => codec.out = Ok(codec.val)

\* A WRITE request with a two-byte non-ASCII filename and a payload has been
\* encoded and its whole frame decoded.
C1_Witness ==
    /\ CodecDecoded("request") /\ WholeFrame
    /\ codec.val.op = "WRITE"
    /\ codec.val.filename = << 195, 169 >>
    /\ Len(codec.val.filebytes) > 0

\* C2: decoding the frame serialize_response built for a Response whose file
\* fields are both present or both absent succeeds and returns it, absent
\* fields absent and present fields (empty ones too) present.
C2_ResponseRoundTrip ==
    (CodecDecoded("response") /\ WholeFrame) => codec.out = Ok(codec.val)

\* A response whose filename and filebytes are present and empty has been
\* encoded and its whole frame decoded.
C2_Witness ==
    /\ CodecDecoded("response") /\ WholeFrame
    /\ codec.val.filename = Some(<< >>)
    /\ codec.val.filebytes = Some(<< >>)

\* C3: handed a proper prefix of a valid frame (the empty one included), the
\* decoder returns an error value: it neither panics on an index or slice
\* past the end of the buffer nor returns a value.
C3_TruncationIsError ==
    (codec.phase = "decoded" /\ Len(codec.buf) < Len(codec.frame))
        => codec.out.kind = "Err"

\* ------------------------------------------------------ the dispatcher
Handled == IsSome(hist.last)

Last == Unwrap(hist.last)

Answered == Handled /\ IsSome(Last.res)

Answer == Unwrap(Last.res)

\* The name resolves to no entry of the file system f.
Absent(f, name) ==
    LET r == Resolve(f, StorePath(name)) IN r.err # "" \/ ~Exists(f, r.at)

\* A name that is one path component: not empty, no separator, not "." or "..".
SingleComponent(name) ==
    /\ name # << >> /\ name # DotName /\ name # DotDotName
    /\ \A i \in 1..Len(name) : name[i] # Slash /\ name[i] # 0

\* The lines of a listing: the pieces its newlines terminate.
Lines(msg) ==
    LET pieces == SplitBy(Newline, msg)
    IN  SubSeq(pieces, 1, Len(pieces) - 1)

Occurrences(seq, x) == Cardinality({ i \in 1..Len(seq) : seq[i] = x })

\* C4: a READ of N whose most recent predecessor naming N was a WRITE of N
\* with B answered ok=true is answered ok=true with filename N, filebytes B.
C4_StoreConsistency ==
    (Handled /\ Last.req.op = "READ" /\ Last.pre # { })
        => /\ Answered
           /\ Answer.ok
           /\ Answer.filename = Some(Last.req.filename)
           /\ \A b \in Last.pre : Answer.filebytes = Some(b)

\* C8: READ of an absent name and DELETE of an absent name are answered
\* ok=false, and LIST on a store whose root is not yet created or holds no
\* entry is answered ok=true with an empty listing.
C8_MissingIsAResponse ==
    Handled =>
        /\ (Last.req.op \in { "READ", "DELETE" } /\ Absent(Last.before, Last.req.filename))
              => (Answered /\ ~Answer.ok)
        /\ (Last.req.op = "LIST" /\ Children(Last.before, << StoreRoot >>) = { })
              => (Answered /\ Answer.ok /\ Answer.msg = << >>)

\* C9: every DELETE of a name that was never written is answered ok=false,
\* leaves the store as it was and leaves the server running.
C9_DeleteNeverWritten ==
    (Handled /\ Last.req.op = "DELETE" /\ Last.req.filename \notin hist.written)
        => /\ Answered /\ ~Answer.ok
           /\ fs = Last.before
           /\ srv.pc = "accept"

C11_FileFieldsOnReadOk ==
    Answered =>
        /\ IsSome(Answer.filename) = IsSome(Answer.filebytes)
        /\ IsSome(Answer.filename) = (Last.req.op = "READ" /\ Answer.ok)

\* The third request handled is a READ answered ok=true with the file, a
\* WRITE having been answered ok=true before it.
C11_Witness ==
    /\ Answered /\ Last.req.op = "READ" /\ Answer.ok
    /\ IsSome(Answer.filename) /\ IsSome(Answer.filebytes)
    /\ hist.count = 3 /\ hist.written # { }

\* The entry at q is the store root or lies under it.
InStore(q) == Len(q) >= 1 /\ q[1] = StoreRoot

\* The entries of f that are not in the store.
Outside(f) == [q \in { x \in DOMAIN f : ~InStore(x) } |-> f[q]]

\* C12: handling a request leaves every entry outside the store root as it
\* was, and a READ answered ok=true returns a file of the store.
C12_ConfinedToStore ==
    Handled =>
        /\ Outside(fs) = Outside(Last.before)
        /\ (Answered /\ Last.req.op = "READ" /\ Answer.ok)
              => InStore(Resolve(Last.before, StorePath(Last.req.filename)).at)

\* ------------------------------------------------ the server and clients
\* C5: the server process ends only when accept itself fails; no error met
\* while one connection is handled (decoding, I/O, file system) ends it.
C5_LoopSurvives ==
    srv.pc \in { "exited", "panicked" } => srv.cause = "accept"

\* C6: while the server waits for the request of a connection whose client
\* has connected and not yet sent, the connection at the head of the backlog
\* can be accepted.
C6_NotSerialized ==
    (/\ srv.pc \in { "readable", "try_read" }
     /\ cli[srv.con].pc = "send"
     /\ srv.backlog # << >>)
        => ENABLED ServerAccept

\* The clients have all run to their end, each having sent a WRITE request,
\* the names pairwise distinct, and accept has not failed.
AllWroteDistinct ==
    /\ srv.cause # "accept"
    /\ \A c \in Clients :
         /\ cli[c].pc = "done" /\ cli[c].exit # "gone"
         /\ IsSome(cli[c].req) /\ Unwrap(cli[c].req).op = "WRITE"
    /\ \A c, d \in Clients :
         c # d => Unwrap(cli[c].req).filename # Unwrap(cli[d].req).filename

\* C7: when all clients have written pairwise distinct names, every exchange
\* has ended with an ok=true response and a READ of each name now returns
\* the bytes its client wrote.
C7_ConcurrentIsolation ==
    AllWroteDistinct =>
        \A c \in Clients :
            LET req == Unwrap(cli[c].req) IN
            /\ cli[c].exit = "ok"
            /\ IsSome(cli[c].res) /\ Unwrap(cli[c].res).ok
            /\ DoRead(fs, req).res
                   = Ok(Response(TRUE, MsgReturned, Some(req.filename),
                                 Some(req.filebytes)))

\* How far run has come.
ClientRank(proc) ==
    CASE proc.pc = "idle" -> 0
      [] proc.pc = "connect" -> 1
      [] proc.pc = "send" -> 2
      [] proc.pc = "readable" -> 3
      [] proc.pc = "try_read" -> 4
      [] proc.pc = "done" -> 5

\* How far the server's side of a connection has come.
ConnRank(conn) ==
    CASE conn.state = "none" -> 0
      [] conn.state = "queued" -> 1
      [] conn.state = "accepted" -> 2
      [] conn.state \in { "aborted", "closed", "reset" } -> 3

\* No side of an exchange steps back, an ended client stays as it ended, a
\* connection the server is done with is not taken up again, and an ended
\* server stays ended.
ForwardOnly ==
    /\ \A c \in Clients :
         /\ ClientRank(cli'[c]) >= ClientRank(cli[c])
         /\ cli[c].pc = "done" => cli'[c] = cli[c]
         /\ ConnRank(net'[c]) >= ConnRank(net[c])
         /\ net[c].state \in { "closed", "reset" }
               => (net'[c].state = net[c].state /\ srv'.con # c)
    /\ srv.pc \in { "exited", "panicked" } => srv' = srv

\* The part of C13 about retries: the exchange only moves forward and its
\* end is final.
C13_NoRetry == [][ForwardOnly]_vars

\* An exchange that ends in this step ends Done or Failed, a failure being
\* an error returned to the caller of run or of handle_client.
EndsReturned ==
    /\ \A c \in Clients :
         (cli[c].pc # "done" /\ cli'[c].pc = "done")
             => cli'[c].exit \in { "ok", "err", "gone" }
    /\ srv'.pc # "panicked"

\* C13: each side of an exchange only moves forward and ends in Done or
\* Failed; a failure is returned to the caller as an error and nothing is
\* attempted after it.
C13_ForwardToDoneOrFailed == [][ForwardOnly /\ EndsReturned]_vars

\* run ends in this step of client c with a decoded response.
Outcome14(c) ==
    cli[c].pc = "try_read" /\ cli'[c].pc = "done" /\ IsSome(cli'[c].res)

\* The file of the response, as it is on the client's disk after the step.
SavedFile(c) ==
    OpenRead(cli'[c].disk,
             ReceiveRoot \o << Slash >> \o Unwrap(Unwrap(cli'[c].res).filename))

\* C14: a decoded ok=false response makes run fail and write no file; an
\* ok=true response to a READ has its filebytes written to
\* received/<filename>; any other ok=true response makes run succeed and
\* write no file.
C14_ClientOutcome ==
    [][\A c \in Clients :
          Outcome14(c) =>
              LET response == Unwrap(cli'[c].res) IN
              /\ ~response.ok
                    => (cli'[c].exit = "err" /\ cli'[c].disk = cli[c].disk)
              /\ (response.ok /\ cli[c].operation = "READ"
                      /\ IsSome(response.filename) /\ IsSome(response.filebytes))
                    => (cli'[c].exit = "ok"
                           => SavedFile(c) = [err |-> "",
                                              data |-> Unwrap(response.filebytes)])
              /\ (response.ok /\ cli[c].operation # "READ")
                    => (cli'[c].exit = "ok" /\ cli'[c].disk = cli[c].disk)]_vars

\* The value of four bytes read as a big-endian unsigned integer.
BeValue(b) == (((b[1] * 256 + b[2]) * 256) + b[3]) * 256 + b[4]

\* The tag the wire contract gives an operation.
WireTag(op) ==
    CASE op = "READ" -> 0 [] op = "WRITE" -> 1 [] op = "DELETE" -> 2 [] op = "LIST" -> 3

\* The frame is [op:1][filename_len:4][filename][filebytes_len:4][filebytes].
HasLayout(frame, req) ==
    LET n == Len(req.filename)
        m == Len(req.filebytes)
    IN  /\ Len(frame) = 9 + n + m
        /\ frame[1] = WireTag(req.op)
        /\ BeValue(SubSeq(frame, 2, 5)) = n
        /\ SubSeq(frame, 6, 5 + n) = req.filename
        /\ BeValue(SubSeq(frame, 6 + n, 9 + n)) = m
        /\ SubSeq(frame, 10 + n, 9 + n + m) = req.filebytes

\* "a.txt"
NameATxt == << 97, 46, 116, 120, 116 >>

\* C15: every frame serialize_request builds has the layout, and the frame
\* of Request{WRITE, "a.txt", [104,105]} is
\* 01 00000005 612e747874 00000002 6869.
C15_RequestLayout ==
    /\ (codec.kind = "request" /\ codec.phase # "idle")
          => HasLayout(codec.frame, codec.val)
    /\ serialize_request(Request("WRITE", NameATxt, << 104, 105 >>))
          = << 1, 0, 0, 0, 5, 97, 46, 116, 120, 116, 0, 0, 0, 2, 104, 105 >>

\* A DELETE request with a two-byte filename and a payload has been encoded.
C15_Witness ==
    /\ codec.kind = "request" /\ codec.phase = "encoded"
    /\ codec.val.op = "DELETE"
    /\ Len(codec.val.filename) = 2 /\ Len(codec.val.filebytes) > 0

\* C16: when a try_read reports would-block, the driver (server or client)
\* is next at the readiness wait, not at another attempt.
C16_WaitsAfterWouldBlock ==
    [][/\ (~srv.spun /\ srv'.spun) => srv'.pc = "readable"
       /\ \A c \in Clients :
            (~cli[c].spun /\ cli'[c].spun) => cli'[c].pc = "readable"]_vars

\* Client c has sent its request frame.
HasSent(c) == cli[c].pc \in { "readable", "try_read", "done" } /\ cli[c].exit # "gone"

\* C17: the buffer a try_read returns is the whole frame the peer sent: the
\* client's is all of the response (nothing of it is still on its way), the
\* server's is the client's request_buffer.
C17_WholeFrames ==
    [][/\ \A c \in Clients :
            (cli[c].pc = "try_read" /\ cli'[c].pc = "done" /\ net[c].state = "closed")
                => net[c].down = << >>
       /\ (srv.pc = "try_read" /\ srv'.pc # "try_read"
              /\ net[srv.con].state = "accepted" /\ HasSent(srv.con))
            => net[srv.con].upr = cli[srv.con].request_buffer]_vars

\* C18: deserialize_request returns a Request only for a buffer whose first
\* byte is 0, 1, 2 or 3, its op the operation with that tag; for any other
\* first byte it returns the unknown-operation error.
C18_TagDecidesOperation ==
    (CodecDecoded("request") /\ codec.buf # << >>) =>
        /\ codec.out.kind = "Ok"
              => (codec.buf[1] \in 0..3 /\ WireTag(codec.out.val.op) = codec.buf[1])
        /\ codec.buf[1] \notin 0..3 => codec.out = Err("Invalid operation")

\* A buffer that is a well-formed frame but for its first byte, 255, has
\* been decoded.
C18_Witness ==
    /\ CodecDecoded("request")
    /\ codec.buf = << 255, 0, 0, 0, 1, 1, 0, 0, 0, 0 >>

\* What a READ of name would be answered on the file system f.
ReadOf(f, name) == DoRead(f, Request("READ", name, << >>)).res

\* C19: handling a request naming N leaves every other name as it was (a
\* READ of it is answered as before), and READ and LIST change no entry.
C19_OthersUntouched ==
    Handled =>
        /\ \A m \in StoreNames \ { Last.req.filename } :
              ReadOf(fs, m) = ReadOf(Last.before, m)
        /\ Last.req.op \in { "READ", "LIST" } => fs = Last.before

\* C20: a READ of N that is answered is answered ok=true with exactly the
\* bytes of the most recent successful WRITE of N when no successful DELETE
\* of N followed it, and ok=false when the most recent was a DELETE or N was
\* never written.
C20_ReadReflectsLatest ==
    (Answered /\ Last.req.op = "READ") =>
        IF IsSome(CurOf(hist, Last.req.filename))
            THEN /\ Answer.ok
                 /\ Answer.filebytes = Some(Unwrap(CurOf(hist, Last.req.filename)))
            ELSE ~Answer.ok

====
